---- MODULE Spec2Model ----
(***************************************************************************)
(* Model of the two release-engineering scripts of rustup's ci directory:  *)
(*   ci/changelog_helper.py  (subcommands usernames and replace-nums)      *)
(*   ci/sync-dist.py         (six sync subcommands, optional --live-run)   *)
(* Strings the code scans are sequences of symbols; strings it only        *)
(* compares or passes on are TLA+ strings.                                 *)
(***************************************************************************)
EXTENDS Integers, Sequences, FiniteSets, TLC

VARIABLES
    tool,            \* which script runs: "changelog" or "sync"
    cmdline,         \* the command line the script was started with
    argv,            \* sys.argv
    pc,              \* position in the script
    file,            \* what the file named on the command line holds (NoFile: missing)
    content,         \* changelog_helper.main: content
    footer,          \* changelog_helper.main: footer
    matches,         \* changelog_helper.main: the list re.findall returned
    usernames,       \* changelog_helper.main: the list extract_usernames returned
    idx,             \* index of the next element of the running for loop
    stdout,          \* what was printed, in order
    io,              \* file operations and external processes, in order
    exit_code,       \* the status the process ends with (0 unless something sets it)
    live_run,        \* sync-dist: live_run
    command,         \* sync-dist: command
    archive_version, \* sync-dist: archive_version
    s3_bucket,       \* sync-dist: s3_bucket
    localFiles       \* sync-dist: which paths exist under local-rustup/

vars == <<tool, cmdline, argv, pc, file, content, footer, matches, usernames, idx, stdout,
          io, exit_code, live_run, command, archive_version, s3_bucket, localFiles>>

changelogVars == <<file, content, footer, matches, usernames, idx>>

syncVars == <<live_run, command, archive_version, s3_bucket, localFiles>>

\* ------------------------------------------------------------- bounds

\* Longest replace-nums input, in symbols.
MaxLen == 5

\* Most pieces (mentions or plain words) in a usernames input.
MaxMentions == 3

\* Most command-line arguments after the script name.
MaxArgs == 3

\* ------------------------------------------------------------ helpers

\* Python's None where a string is expected: no text holds this symbol.
None == <<"None">>

\* A file name that names no file.
NoFile == <<"<no such file>">>

Range(s) == {s[i] : i \in 1..Len(s)}

RECURSIVE SeqsUpTo(_, _)
SeqsUpTo(S, n) ==
    IF n = 0 THEN {<<>>}
    ELSE LET shorter == SeqsUpTo(S, n - 1)
         IN  shorter \cup {Append(s, x) : s \in {t \in shorter : Len(t) = n - 1}, x \in S}

RECURSIVE Flatten(_)
Flatten(ss) == IF ss = <<>> THEN <<>> ELSE Head(ss) \o Flatten(Tail(ss))

\* The prefix of s[i..] made of symbols of S (a greedy character-class run).
RECURSIVE RunOf(_, _, _)
RunOf(s, i, S) ==
    IF i <= Len(s) /\ s[i] \in S THEN <<s[i]>> \o RunOf(s, i + 1, S) ELSE <<>>

\* ============================================================ changelog_helper.py

\* The repository's pull-request URL prefix, one symbol of a scanned text.
PullUrl == "https://github.com/rust-lang/rustup/pull/"

Digits == {"4", "2"}

\* The symbols of a replace-nums text: "[pr" and "a" stand for text that is
\* neither a digit nor part of a reference prefix.
NumSymbols == {"#", PullUrl, "[pr", "]", "a"} \cup Digits

\* issue_pat: the two prefixes of the alternation.
IssuePrefixes == {"#", PullUrl}

\* re.findall(issue_pat, content): the (prefix, num) groups of the
\* non-overlapping matches, left to right, \d+ greedy.
RECURSIVE FindallFrom(_, _)
FindallFrom(s, i) ==
    IF i > Len(s) THEN <<>>
    ELSE IF s[i] \in IssuePrefixes /\ RunOf(s, i + 1, Digits) # <<>>
         THEN LET num == RunOf(s, i + 1, Digits)
              IN  <<<<s[i], num>>>> \o FindallFrom(s, i + 1 + Len(num))
         ELSE FindallFrom(s, i + 1)

FindallIssues(s) == FindallFrom(s, 1)

\* str.replace(old, new): every non-overlapping occurrence of old, left to right.
RECURSIVE ReplaceFrom(_, _, _, _)
ReplaceFrom(s, i, old, new) ==
    IF i > Len(s) THEN <<>>
    ELSE IF i + Len(old) - 1 <= Len(s) /\ SubSeq(s, i, i + Len(old) - 1) = old
         THEN new \o ReplaceFrom(s, i + Len(old), old, new)
         ELSE <<s[i]>> \o ReplaceFrom(s, i + 1, old, new)

StrReplace(s, old, new) == ReplaceFrom(s, 1, old, new)

\* link = f"[pr#{num}]"
Link(num) == <<"[pr", "#">> \o num \o <<"]">>

\* f"{link}: https://github.com/rust-lang/rustup/pull/{num}\n"
FooterLine(num) == Link(num) \o <<": ", PullUrl>> \o num \o <<"\n">>

\* content.replace(prefix + num, link)
ReplaceRef(text, prefix, num) == StrReplace(text, <<prefix>> \o num, Link(num))

\* read_file: the file's text, or None with a diagnostic.
ReadFile == IF file = NoFile THEN None ELSE file

ReadEvent ==
    [op |-> "read", arg |-> <<argv[3]>>,
     result |-> IF file = NoFile THEN "not_found" ELSE "ok"]

ReadDiag == IF file = NoFile THEN <<[k |-> "diag", text |-> <<"File not found">>]>> ELSE <<>>

\* `not content`: None or the empty string.
NoContent(c) == c = None \/ c = <<>>

\* main, len(sys.argv) < 3
TooFewArgs(a) == Len(a) < 3

Subcommands == {"usernames", "replace-nums"}

\* main's dispatch: the branch taken for sys.argv.
Dispatch(a) ==
    IF TooFewArgs(a) THEN "help"
    ELSE IF a[2] = "usernames" THEN "usernames"
    ELSE IF a[2] = "replace-nums" THEN "replace-nums"
    ELSE "help"

\* help(): print(USAGE); sys.exit(1)
ChangelogUsage ==
    /\ tool = "changelog" /\ pc = "start"
    /\ Dispatch(argv) = "help"
    /\ stdout' = Append(stdout, [k |-> "usage", text |-> <<"USAGE">>])
    /\ exit_code' = 1
    /\ pc' = "exited"
    /\ UNCHANGED <<tool, cmdline, argv, io, changelogVars, syncVars>>

\* replace-nums: read_file, the early return, re.findall
ReplaceNumsRead ==
    /\ tool = "changelog" /\ pc = "start"
    /\ Dispatch(argv) = "replace-nums"
    /\ io' = Append(io, ReadEvent)
    /\ stdout' = stdout \o ReadDiag
    /\ content' = ReadFile
    /\ footer' = <<>>
    /\ IF NoContent(ReadFile)
       THEN /\ pc' = "exited" /\ exit_code' = 0
            /\ UNCHANGED <<matches, idx>>
       ELSE /\ matches' = FindallIssues(ReadFile)
            /\ idx' = 1
            /\ pc' = "n_loop"
            /\ UNCHANGED exit_code
    /\ UNCHANGED <<tool, cmdline, argv, file, usernames, syncVars>>

\* one iteration of `for prefix, num in re.findall(issue_pat, content)`
ReplaceNumsStep ==
    /\ tool = "changelog" /\ pc = "n_loop"
    /\ idx <= Len(matches)
    /\ LET prefix == matches[idx][1]
           num == matches[idx][2]
       IN  /\ footer' = footer \o FooterLine(num)
           /\ content' = ReplaceRef(content, prefix, num)
    /\ idx' = idx + 1
    /\ UNCHANGED <<tool, cmdline, argv, pc, file, matches, usernames, stdout, io, exit_code, syncVars>>

\* print(f"{content}\n{footer}")
ReplaceNumsPrint ==
    /\ tool = "changelog" /\ pc = "n_loop"
    /\ idx > Len(matches)
    /\ stdout' = Append(stdout, [k |-> "rewritten", text |-> content \o <<"\n">> \o footer])
    /\ pc' = "exited"
    /\ exit_code' = 0
    /\ UNCHANGED <<tool, cmdline, argv, file, content, footer, matches, usernames, idx, io, syncVars>>

\* ------------------------------------------------------------ usernames

\* BOTS = {"renovate": "Renovate Bot"}
renovate == <<"r", "e", "n", "o", "v", "a", "t", "e">>

BOTS == (renovate :> <<"Renovate Bot">>)

\* The characters of the modelled texts, with their code points.
Code(c) ==
    CASE c = " " -> 32 [] c = "-" -> 45 [] c = "@" -> 64
      [] c = "B" -> 66 [] c = "R" -> 82 [] c = "Z" -> 90 [] c = "_" -> 95
      [] c = "a" -> 97 [] c = "b" -> 98 [] c = "d" -> 100 [] c = "e" -> 101
      [] c = "l" -> 108 [] c = "n" -> 110 [] c = "o" -> 111 [] c = "r" -> 114
      [] c = "t" -> 116 [] c = "v" -> 118 [] c = "x" -> 120 [] c = "z" -> 122

\* [\w-]: the word characters among the modelled ones, and the hyphen.
WordChars ==
    {"-", "_", "B", "R", "Z", "a", "b", "d", "e", "l", "n", "o", "r", "t", "v", "x", "z"}

\* re.findall(r"@([\w-]+)", text): group 1 of the non-overlapping matches.
RECURSIVE FindallMentionsFrom(_, _)
FindallMentionsFrom(s, i) ==
    IF i > Len(s) THEN <<>>
    ELSE IF s[i] = "@" /\ RunOf(s, i + 1, WordChars) # <<>>
         THEN LET name == RunOf(s, i + 1, WordChars)
              IN  <<name>> \o FindallMentionsFrom(s, i + 1 + Len(name))
         ELSE FindallMentionsFrom(s, i + 1)

FindallMentions(s) == FindallMentionsFrom(s, 1)

\* str.casefold on one character (the modelled letters are ASCII: lower-casing).
FoldChar(c) == CASE c = "B" -> "b" [] c = "R" -> "r" [] c = "Z" -> "z" [] OTHER -> c

casefold(name) == [i \in 1..Len(name) |-> FoldChar(name[i])]

\* Python's str <: by code point, a proper prefix first.
RECURSIVE StrLess(_, _)
StrLess(a, b) ==
    IF b = <<>> THEN FALSE
    ELSE IF a = <<>> THEN TRUE
    ELSE IF Code(Head(a)) # Code(Head(b)) THEN Code(Head(a)) < Code(Head(b))
    ELSE StrLess(Tail(a), Tail(b))

\* key=str.casefold: the bot component of the key forgotten.
SortKeyCasefoldOnly(name) == <<FALSE, casefold(name)>>

\* key=lambda name: (name in BOTS, str.casefold(name))
SortKey(name) == <<name \in DOMAIN BOTS, casefold(name)>>

\* Python's tuple < on two keys (False < True).
KeyLess(k1, k2) ==
    IF k1[1] # k2[1] THEN k2[1] ELSE StrLess(k1[2], k2[2])

\* set(...): the distinct strings of a list.
SetOf(list) == Range(list)

\* sorted(S, key=...): S's elements in ascending key order; elements with equal
\* keys keep the set's iteration order, which the hash seed decides: any order.
Sorted(S) ==
    {p \in [1..Cardinality(S) -> S] :
        /\ \A i, j \in 1..Cardinality(S) : i # j => p[i] # p[j]
        /\ \A i, j \in 1..Cardinality(S) : i < j => ~KeyLess(SortKey(p[j]), SortKey(p[i]))}

\* sorted(re.findall(...), key=...), the set() forgotten: a stable sort of the list.
extract_usernames_no_set(text) ==
    LET l == FindallMentions(text)
        n == Len(l)
        Orders == {q \in [1..n -> 1..n] :
                     /\ \A i, j \in 1..n : i # j => q[i] # q[j]
                     /\ \A i, j \in 1..n : i < j =>
                          /\ ~KeyLess(SortKey(l[q[j]]), SortKey(l[q[i]]))
                          /\ SortKey(l[q[i]]) = SortKey(l[q[j]]) => q[i] < q[j]}
    IN  {[i \in 1..n |-> l[q[i]]] : q \in Orders}

\* extract_usernames(text): the lists it can return.
extract_usernames(text) == Sorted(SetOf(FindallMentions(text)))

\* What the lookup process and the parsing of its answer can come to.
LookupFailures == {"exit_failure", "malformed_json", "missing_field"}

LookupOutcomes == {"name", "null_name"} \cup LookupFailures

\* data["name"] of a profile that has one.
ProfileName(username) == <<"name of ">> \o username

\* github_name without the BOTS short-circuit.
NeedsLookupAlways(username) == TRUE

\* github_name: `if username in BOTS` is false, so the lookup runs.
NeedsLookup(username) == username \notin DOMAIN BOTS

\* github_name: the returned value (None when the except branch ends the call).
GithubNameValue(username, outcome) ==
    IF ~NeedsLookup(username) THEN BOTS[username]
    ELSE IF outcome = "name" THEN ProfileName(username)
    ELSE IF outcome = "null_name" THEN username
    ELSE None

\* github_name: the gh process it starts.
GithubNameExec(username, outcome) ==
    IF NeedsLookup(username)
    THEN <<[op |-> "exec", arg |-> <<"gh", "api", "/users/">> \o username, result |-> outcome]>>
    ELSE <<>>

\* github_name: print("An error occurred:", str(e))
GithubNameDiag(username, outcome) ==
    IF NeedsLookup(username) /\ outcome \in LookupFailures
    THEN <<[k |-> "diag", text |-> <<"An error occurred:", outcome>>]>>
    ELSE <<>>

\* f"- {github_name(username)} ({username})"
ListLine(display, username) == <<"- ">> \o display \o <<" (">> \o username \o <<")">>

\* usernames: read_file, the early return, extract_usernames
UsernamesRead ==
    /\ tool = "changelog" /\ pc = "start"
    /\ Dispatch(argv) = "usernames"
    /\ io' = Append(io, ReadEvent)
    /\ stdout' = stdout \o ReadDiag
    /\ content' = ReadFile
    /\ IF NoContent(ReadFile)
       THEN /\ pc' = "exited" /\ exit_code' = 0
            /\ UNCHANGED <<usernames, idx>>
       ELSE /\ usernames' \in extract_usernames(ReadFile)
            /\ idx' = 1
            /\ pc' = "u_loop"
            /\ UNCHANGED exit_code
    /\ UNCHANGED <<tool, cmdline, argv, file, footer, matches, syncVars>>

\* one iteration of `for username in extract_usernames(content)`
UsernamesStep ==
    /\ tool = "changelog" /\ pc = "u_loop"
    /\ idx <= Len(usernames)
    /\ \E outcome \in LookupOutcomes :
         LET username == usernames[idx]
         IN  /\ io' = io \o GithubNameExec(username, outcome)
             /\ stdout' = stdout \o GithubNameDiag(username, outcome)
                    \o <<[k |-> "line",
                          text |-> ListLine(GithubNameValue(username, outcome), username)]>>
    /\ idx' = idx + 1
    /\ UNCHANGED <<tool, cmdline, argv, pc, file, content, footer, matches, usernames, exit_code, syncVars>>

\* the loop is exhausted: main returns
UsernamesDone ==
    /\ tool = "changelog" /\ pc = "u_loop"
    /\ idx > Len(usernames)
    /\ pc' = "exited"
    /\ exit_code' = 0
    /\ UNCHANGED <<tool, cmdline, argv, file, content, footer, matches, usernames, idx, stdout, io, syncVars>>

\* ============================================================ sync-dist.py

\* The command names the script accepts.
Commands ==
    {"dev-to-local", "local-to-dev-archives", "update-dev-release",
     "local-to-prod-archives", "local-to-prod", "update-prod-release"}

\* `"archives" in command or "release" in command`, on the accepted names.
TakesVersion(c) ==
    c \in {"local-to-dev-archives", "local-to-prod-archives",
           "update-dev-release", "update-prod-release"}

\* `"prod" in command`, on the accepted names.
IsProd(c) == c \in {"local-to-prod-archives", "local-to-prod", "update-prod-release"}

\* list.remove(x): the list without its first x.
RECURSIVE RemoveFirst(_, _)
RemoveFirst(list, x) ==
    IF list = <<>> THEN <<>>
    ELSE IF Head(list) = x THEN Tail(list)
    ELSE <<Head(list)>> \o RemoveFirst(Tail(list), x)

\* `"--live-run" in sys.argv`
LiveRunOf(a) == "--live-run" \in Range(a)

\* sys.argv once the flag is removed.
ArgvAfterFlag(a) == IF LiveRunOf(a) THEN RemoveFirst(a, "--live-run") ELSE a

\* The argument count checked with < where the script has !=.
SyncArgsRejectedTooFewOnly(a) ==
    IF Len(a) < 2 THEN TRUE
    ELSE IF a[2] \notin Commands THEN TRUE
    ELSE IF TakesVersion(a[2]) THEN Len(ArgvAfterFlag(a)) < 3
    ELSE Len(ArgvAfterFlag(a)) < 2

\* The four places that call usage().
SyncArgsRejected(a) ==
    IF Len(a) < 2 THEN TRUE
    ELSE IF a[2] \notin Commands THEN TRUE
    ELSE IF TakesVersion(a[2]) THEN Len(ArgvAfterFlag(a)) # 3
    ELSE Len(ArgvAfterFlag(a)) # 2

\* usage(): print the usage text; sys.exit(1)
SyncUsage ==
    /\ tool = "sync" /\ pc = "start"
    /\ SyncArgsRejected(argv)
    /\ stdout' = Append(stdout, [k |-> "usage", text |-> <<"usage: sync-dist">>])
    /\ exit_code' = 1
    /\ pc' = "exited"
    /\ UNCHANGED <<tool, cmdline, argv, io, changelogVars, syncVars>>

\* The argument handling when no usage() is reached, and the bucket choice.
SyncParse ==
    /\ tool = "sync" /\ pc = "start"
    /\ ~SyncArgsRejected(argv)
    /\ command' = argv[2]
    /\ live_run' = LiveRunOf(argv)
    /\ argv' = ArgvAfterFlag(argv)
    /\ archive_version' =
         IF TakesVersion(argv[2]) THEN ArgvAfterFlag(argv)[3] ELSE "None"
    /\ s3_bucket' =
         IF IsProd(argv[2]) THEN "static-rust-lang-org" ELSE "dev-static-rust-lang-org"
    /\ stdout' = Append(stdout, [k |-> "info", text |-> <<"s3 bucket, command, archive version">>])
    /\ pc' = "binaries"
    /\ UNCHANGED <<tool, cmdline, io, exit_code, localFiles, changelogVars>>

\* A command string is the list of the pieces it is formatted from, each
\* space a piece of its own. The words of the command lines (versions among
\* them) hold no space.
AwsCp == <<"aws", " ", "s3", " ", "cp", " ">>

AwsCpRecursive == AwsCp \o <<"--recursive", " ">>

\* "s3://{}<path>".format(s3_bucket, ...)
S3Url(bucket, path) == <<"s3://", bucket>> \o path

Invalidation(distribution, paths) ==
    <<"aws", " ", "cloudfront", " ", "create-invalidation", " ", "--distribution-id", " ",
      distribution, " ", "--paths", " ", paths>>

\* The s3cmd chosen for the binaries.
BinariesCmd(c, bucket, version) ==
    CASE c = "dev-to-local" ->
           AwsCpRecursive \o S3Url(bucket, <<"/rustup/dist/">>) \o <<" ", "./local-rustup/dist/">>
      [] c \in {"local-to-dev-archives", "local-to-prod-archives"} ->
           AwsCpRecursive \o <<"./local-rustup/dist/", " ">>
             \o S3Url(bucket, <<"/rustup/archive/", version, "/">>)
      [] c = "local-to-prod" ->
           AwsCpRecursive \o <<"local-rustup/dist/", " ">> \o S3Url(bucket, <<"/rustup/dist/">>)
      [] c \in {"update-dev-release", "update-prod-release"} ->
           AwsCp \o <<"./local-rustup/release-stable.toml", " ">>
             \o S3Url(bucket, <<"/rustup/release-stable.toml">>)

\* The command string each run_s3cmd call site passes.
CommandAt(p, c, bucket, version) ==
    CASE p = "main" -> BinariesCmd(c, bucket, version)
      [] p = "init_sh" ->
           AwsCp \o S3Url(bucket, <<"/rustup/rustup-init.sh">>)
             \o <<" ", "./local-rustup/rustup-init.sh">>
      [] p = "www" ->
           AwsCpRecursive \o S3Url(bucket, <<"/rustup/www/">>) \o <<" ", "./local-rustup/www/">>
      [] p = "prod_init" ->
           AwsCp \o <<"./local-rustup/rustup-init.sh", " ">>
             \o S3Url(bucket, <<"/rustup/rustup-init.sh">>)
      [] p = "prod_sh" ->
           AwsCp \o <<"./local-rustup/rustup-init.sh", " ">> \o S3Url(bucket, <<"/rustup.sh">>)
      [] p = "prod_www" ->
           AwsCpRecursive \o <<"./local-rustup/www/", " ">> \o S3Url(bucket, <<"/rustup/www/">>)
      [] p = "inv_sh" -> Invalidation("E70E9RGZ6Q27W", "/*")
      [] p = "inv_win" -> Invalidation("E2XBMULPACBLNE", "/*")
      [] p = "inv_rs" -> Invalidation("EVJCMYBQ0EX26", "/*")
      [] p = "inv_dev_static" -> Invalidation("E30AO2GXMDY230", "/rustup/*")
      [] p = "inv_dev" -> Invalidation("E3OQOQ34607Z0A", "/*")
      [] p = "inv_prod" -> Invalidation("E3NZU1LCBHH4A4", "/rustup/*")

RunPcs ==
    {"main", "init_sh", "www", "prod_init", "prod_sh", "prod_www",
     "inv_sh", "inv_win", "inv_rs", "inv_dev_static", "inv_dev", "inv_prod"}

\* command.split(" "): the words between the spaces.
RECURSIVE SplitFrom(_, _)
SplitFrom(str, word) ==
    IF str = <<>> THEN <<word>>
    ELSE IF Head(str) = " " THEN <<word>> \o SplitFrom(Tail(str), <<>>)
    ELSE SplitFrom(Tail(str), Append(word, Head(str)))

Split(str) == SplitFrom(str, <<>>)

\* `"cloudfront" not in command`
NotCloudfront(cmd) == "cloudfront" \notin Range(cmd)

\* run_s3cmd with the live_run test inverted.
run_s3cmd_inverted(cmd, live) ==
    Split(cmd) \o (IF live THEN <<<<"--dryrun">>>> ELSE <<>>)
        \o (IF NotCloudfront(cmd) THEN <<<<"--exclude=*rustup-setup*">>>> ELSE <<>>)

\* run_s3cmd: the argument list handed to subprocess.check_call.
run_s3cmd(cmd, live) ==
    Split(cmd) \o (IF ~live THEN <<<<"--dryrun">>>> ELSE <<>>)
        \o (IF NotCloudfront(cmd) THEN <<<<"--exclude=*rustup-setup*">>>> ELSE <<>>)

\* The run_s3cmd call site that follows the one at p when that one returns
\* ("exited": none, the script ends).
NextCall(p, c, live) ==
    CASE p = "main" ->
           (CASE c = "dev-to-local" -> "init_sh"
              [] c = "local-to-prod" -> "prod_init"
              [] c = "update-dev-release" /\ live -> "inv_dev_static"
              [] c = "update-prod-release" /\ live -> "inv_prod"
              [] OTHER -> "exited")
      [] p = "init_sh" -> "www"
      [] p = "prod_init" -> "prod_sh"
      [] p = "prod_sh" -> "prod_www"
      [] p = "prod_www" -> IF live THEN "inv_sh" ELSE "exited"
      [] p = "inv_sh" -> "inv_win"
      [] p = "inv_win" -> "inv_rs"
      [] p = "inv_dev_static" -> "inv_dev"
      [] OTHER -> "exited"

\* subprocess.call in place of check_call: the status is ignored.
AfterFailedCallContinues(p, c, live) == NextCall(p, c, live)

\* subprocess.check_call raised CalledProcessError, which nothing catches:
\* the script ends there.
AfterFailedCall(p, c, live) == "exited"

FsEvent(o, path) == [op |-> o, arg |-> <<path>>, result |-> "ok"]

\* The local file operations of the binaries step (the path checks, rmtree and
\* makedirs of dev-to-local; the descriptor written for a release update).
BinariesFsOps(c, files) ==
    CASE c = "dev-to-local" ->
           (IF "dist" \in files THEN <<FsEvent("rmtree", "local-rustup/dist")>> ELSE <<>>)
             \o <<FsEvent("makedirs", "local-rustup/dist")>>
      [] c \in {"update-dev-release", "update-prod-release"} ->
           <<[op |-> "write", arg |-> <<"./local-rustup/release-stable.toml">>,
              result |-> IF "local-rustup" \in files THEN "ok" ELSE "not_found"]>>
      [] OTHER -> <<>>

\* "First, deal with the binaries" and "Create the release information".
SyncBinaries ==
    /\ tool = "sync" /\ pc = "binaries"
    /\ io' = io \o BinariesFsOps(command, localFiles)
    /\ stdout' = Append(stdout, [k |-> "info", text |-> <<"s3 command">>])
    /\ IF command = "dev-to-local"
       THEN /\ localFiles' = localFiles \cup {"local-rustup", "dist"}
            /\ pc' = "main"
            /\ UNCHANGED exit_code
       ELSE IF command \in {"update-dev-release", "update-prod-release"}
                /\ "local-rustup" \notin localFiles
       THEN \* open(..., "w") raises: no directory to write into
            /\ pc' = "exited" /\ exit_code' = 1
            /\ UNCHANGED localFiles
       ELSE /\ pc' = "main"
            /\ UNCHANGED <<localFiles, exit_code>>
    /\ UNCHANGED <<tool, cmdline, argv, live_run, command, archive_version, s3_bucket, changelogVars>>

\* The local file operations that precede the run_s3cmd call at p.
FsOpsBefore(p, files) ==
    CASE p = "init_sh" ->
           IF "rustup-init.sh" \in files
           THEN <<FsEvent("remove", "local-rustup/rustup-init.sh")>> ELSE <<>>
      [] p = "www" ->
           (IF "www" \in files THEN <<FsEvent("rmtree", "local-rustup/www")>> ELSE <<>>)
             \o <<FsEvent("makedirs", "local-rustup/www")>>
      [] OTHER -> <<>>

FilesBefore(p, files) ==
    CASE p = "init_sh" -> files \ {"rustup-init.sh"}
      [] p = "www" -> files \cup {"www"}
      [] OTHER -> files

\* One run_s3cmd call, with the file operations the script does just before
\* it: the external command ends with status 0 or not.
SyncRun ==
    /\ tool = "sync" /\ pc \in RunPcs
    /\ \E result \in {"ok", "exit_failure"} :
         /\ io' = io \o FsOpsBefore(pc, localFiles)
                \o <<[op |-> "exec",
                      arg |-> run_s3cmd(CommandAt(pc, command, s3_bucket, archive_version),
                                        live_run),
                      result |-> result]>>
         /\ stdout' = Append(stdout, [k |-> "info", text |-> <<"executing: ">>])
         /\ localFiles' =
              IF pc = "init_sh" /\ result = "ok" /\ live_run
              THEN FilesBefore(pc, localFiles) \cup {"rustup-init.sh"}
              ELSE FilesBefore(pc, localFiles)
         /\ pc' = IF result = "ok" THEN NextCall(pc, command, live_run)
                  ELSE AfterFailedCall(pc, command, live_run)
         /\ exit_code' =
              IF result # "ok" THEN 1
              ELSE IF NextCall(pc, command, live_run) = "exited" THEN 0
              ELSE exit_code
    /\ UNCHANGED <<tool, cmdline, argv, live_run, command, archive_version, s3_bucket, changelogVars>>

\* ------------------------------------------------------------ specifications

SyncIdle ==
    /\ live_run = FALSE
    /\ command = "None"
    /\ archive_version = "None"
    /\ s3_bucket = "None"

ChangelogIdle ==
    /\ content = None
    /\ footer = <<>>
    /\ matches = <<>>
    /\ usernames = <<>>
    /\ idx = 0

Started ==
    /\ argv = cmdline
    /\ pc = "start"
    /\ stdout = <<>>
    /\ io = <<>>
    /\ exit_code = 0

NumTexts == SeqsUpTo(NumSymbols, MaxLen)

InitNums ==
    /\ tool = "changelog"
    /\ cmdline = <<"changelog_helper.py", "replace-nums", "file_name">>
    /\ file \in NumTexts \cup {NoFile}
    /\ localFiles = {}
    /\ Started /\ ChangelogIdle /\ SyncIdle

NextNums == ReplaceNumsRead \/ ReplaceNumsStep \/ ReplaceNumsPrint

SpecNums == InitNums /\ [][NextNums]_vars

\* The pieces a usernames input is made of: mentions and a plain word.
MentionPieces ==
    { <<"@", "a", "l", " ">>,
      <<"@", "Z", "e", "d", " ">>,
      <<"@", "B", "o", "b", " ">>,
      <<"@", "b", "o", "b", " ">>,
      <<"@">> \o renovate \o <<" ">>,
      <<"@", "R", "e", "n", "o", "v", "a", "t", "e", " ">>,
      <<"x", " ">> }

MentionTexts == {Flatten(ps) : ps \in SeqsUpTo(MentionPieces, MaxMentions)}

InitUsers ==
    /\ tool = "changelog"
    /\ cmdline = <<"changelog_helper.py", "usernames", "file_name">>
    /\ file \in MentionTexts \cup {NoFile}
    /\ localFiles = {}
    /\ Started /\ ChangelogIdle /\ SyncIdle

NextUsers == UsernamesRead \/ UsernamesStep \/ UsernamesDone

SpecUsers == InitUsers /\ [][NextUsers]_vars

\* What a sync-dist command line is made of.
SyncWords == Commands \cup {"bogus", "--live-run", "0.2.0"}

\* What local-rustup/ can hold when the script starts.
LocalStates ==
    {{}} \cup {{"local-rustup"} \cup fs : fs \in SUBSET {"dist", "rustup-init.sh", "www"}}

InitSync ==
    /\ tool = "sync"
    /\ cmdline \in {<<"sync-dist.py">> \o args : args \in SeqsUpTo(SyncWords, MaxArgs)}
    /\ file = NoFile
    /\ localFiles \in LocalStates
    /\ Started /\ ChangelogIdle /\ SyncIdle

NextSync == SyncUsage \/ SyncParse \/ SyncBinaries \/ SyncRun

SpecSync == InitSync /\ [][NextSync]_vars

\* What a changelog_helper command line is made of.
ChangelogWords == Subcommands \cup {"bogus", "file_name"}

\* A few files for the runs that are about the command line.
SampleFiles == {NoFile, <<>>, <<"a", "#", "4">>, <<"@", "a", "l", " ">>}

InitChangelog ==
    /\ tool = "changelog"
    /\ cmdline \in {<<"changelog_helper.py">> \o args : args \in SeqsUpTo(ChangelogWords, MaxArgs)}
    /\ file \in SampleFiles
    /\ localFiles = {}
    /\ Started /\ ChangelogIdle /\ SyncIdle

Init == InitChangelog \/ InitSync

Next ==
    \/ ChangelogUsage
    \/ UsernamesRead \/ UsernamesStep \/ UsernamesDone
    \/ ReplaceNumsRead \/ ReplaceNumsStep \/ ReplaceNumsPrint
    \/ SyncUsage \/ SyncParse \/ SyncBinaries \/ SyncRun

\* Both scripts, over every command line of the bounds.
Spec == Init /\ [][Next]_vars

\* ============================================================ properties

\* ------------------------------------------------------------ replace-nums

\* replace-nums ran to its print.
Rewritten ==
    /\ tool = "changelog" /\ pc = "exited"
    /\ stdout # <<>>
    /\ stdout[Len(stdout)] = [k |-> "rewritten", text |-> content \o <<"\n">> \o footer]

\* The text with every reference occurrence replaced, once, by the token of
\* its own identifier, and everything else kept.
RECURSIVE TokenizedFrom(_, _)
TokenizedFrom(s, i) ==
    IF i > Len(s) THEN <<>>
    ELSE IF s[i] \in IssuePrefixes /\ RunOf(s, i + 1, Digits) # <<>>
         THEN LET num == RunOf(s, i + 1, Digits)
              IN  Link(num) \o TokenizedFrom(s, i + 1 + Len(num))
         ELSE <<s[i]>> \o TokenizedFrom(s, i + 1)

Tokenized(s) == TokenizedFrom(s, 1)

\* The lines of a footer, each with its line end.
RECURSIVE LinesFrom(_, _)
LinesFrom(f, cur) ==
    IF f = <<>> THEN (IF cur = <<>> THEN <<>> ELSE <<cur>>)
    ELSE IF Head(f) = "\n" THEN <<Append(cur, "\n")>> \o LinesFrom(Tail(f), <<>>)
    ELSE LinesFrom(Tail(f), Append(cur, Head(f)))

CountLines(f, line) ==
    LET ls == LinesFrom(f, <<>>) IN Cardinality({i \in 1..Len(ls) : ls[i] = line})

\* The text's references are one bare #N, two or more times.
RepeatedBareRef(text) ==
    LET m == FindallIssues(text)
    IN  /\ Len(m) >= 2
        /\ m[1][1] = "#"
        /\ \A i \in 1..Len(m) : m[i] = m[1]

\* C1: for an input in which the same bare reference #N occurs two or more
\* times, the printed body has the token [pr#N] exactly where #N stood (no
\* nested token) and the footer has exactly one line mapping [pr#N] to the
\* pull URL of N.
C1_RepeatedRefOneTokenOneLine ==
    (Rewritten /\ RepeatedBareRef(file)) =>
        /\ content = Tokenized(file)
        /\ CountLines(footer, FooterLine(FindallIssues(file)[1][2])) = 1

\* The text with each well-formed token [pr#<digits>] taken out.
RECURSIVE WithoutTokensFrom(_, _)
WithoutTokensFrom(s, i) ==
    IF i > Len(s) THEN <<>>
    ELSE IF /\ s[i] = "[pr"
            /\ i + 1 <= Len(s) /\ s[i + 1] = "#"
            /\ RunOf(s, i + 2, Digits) # <<>>
            /\ i + 2 + Len(RunOf(s, i + 2, Digits)) <= Len(s)
            /\ s[i + 2 + Len(RunOf(s, i + 2, Digits))] = "]"
         THEN <<"a">> \o WithoutTokensFrom(s, i + 3 + Len(RunOf(s, i + 2, Digits)))
         ELSE <<s[i]>> \o WithoutTokensFrom(s, i + 1)

\* The text holds tokens, and no reference outside a token.
OnlyTokens(text) ==
    /\ FindallIssues(text) # <<>>
    /\ FindallIssues(WithoutTokensFrom(text, 1)) = <<>>

\* C2: for an input whose only references are already-formed [pr#N] tokens,
\* replace-nums substitutes nothing: the printed body is the input and the
\* footer is empty.
C2_TokenizedInputUnchanged ==
    (Rewritten /\ OnlyTokens(file)) => (content = file /\ footer = <<>>)

\* The text holds two or more references, no two with the same identifier.
DistinctIdentifiers(text) ==
    LET m == FindallIssues(text)
    IN  /\ Len(m) >= 2
        /\ \A i, j \in 1..Len(m) : i # j => m[i][2] # m[j][2]

\* C3: every reference occurrence is replaced in the printed body by the token
\* of its own full identifier, the other text is unchanged, and the footer has
\* a line for that token; stated for the inputs with several different
\* identifiers (one may be a digit-prefix of another), none occurring twice.
C3_EachReferenceOwnToken ==
    (Rewritten /\ DistinctIdentifiers(file)) =>
        /\ content = Tokenized(file)
        /\ \A i \in 1..Len(FindallIssues(file)) :
             CountLines(footer, FooterLine(FindallIssues(file)[i][2])) >= 1

\* A single reference is rewritten as the three claims say (the case none of
\* their failures touches).
SingleReferenceTokenized ==
    (Rewritten /\ Len(FindallIssues(file)) = 1 /\ ~OnlyTokens(file)) =>
        /\ content = Tokenized(file)
        /\ LinesFrom(footer, <<>>) = <<FooterLine(FindallIssues(file)[1][2])>>

\* ------------------------------------------------------------ usernames

\* extract_usernames has returned (the list is in usernames).
Extracted == tool = "changelog" /\ pc = "u_loop"

IsBot(name) == name \in DOMAIN BOTS

\* C4, as stated: the returned list has no duplicate entries and no two
\* entries that differ only by letter case.
C4_NoCaseDuplicates ==
    Extracted =>
        \A i, j \in 1..Len(usernames) :
            i # j => casefold(usernames[i]) # casefold(usernames[j])

\* C4, amended: the returned list holds every spelling mentioned in the text
\* exactly once; spellings that differ only by letter case are different
\* entries.
C4_EachSpellingOnce ==
    Extracted =>
        /\ \A i, j \in 1..Len(usernames) : i # j => usernames[i] # usernames[j]
        /\ Range(usernames) = Range(FindallMentions(file))

\* A text that mentions one spelling twice and a case variant of it: the
\* repeated spelling is listed once, the variant beside it.
C4_Witness ==
    /\ Extracted
    /\ Len(FindallMentions(file)) > Len(usernames)
    /\ \E i, j \in 1..Len(usernames) :
         /\ usernames[i] # usernames[j]
         /\ casefold(usernames[i]) = casefold(usernames[j])

\* C5: in the returned list the bot usernames form one block after all the
\* others, and the others are in ascending order of their case-folded forms.
C5_BotsLastOthersByCasefold ==
    Extracted =>
        \A i, j \in 1..Len(usernames) :
            i < j =>
                /\ IsBot(usernames[i]) => IsBot(usernames[j])
                /\ (~IsBot(usernames[i]) /\ ~IsBot(usernames[j])) =>
                     ~StrLess(casefold(usernames[j]), casefold(usernames[i]))

\* al, Zed, renovate: code-point order would give Zed, al; case-folded order
\* alone would put renovate before Zed.
C5_Witness ==
    /\ Extracted
    /\ usernames = <<<<"a", "l">>, <<"Z", "e", "d">>, renovate>>

\* The username a gh process was started for.
LookedUp(e) == SubSeq(e.arg, 4, Len(e.arg))

\* What github_name can return for a username.
Displays(u) == {u, None, ProfileName(u)} \cup {BOTS[b] : b \in DOMAIN BOTS}

\* The printed list lines about username u.
LinesAbout(u) ==
    {i \in 1..Len(stdout) :
        /\ stdout[i].k = "line"
        /\ \E d \in Displays(u) : stdout[i].text = ListLine(d, u)}

\* C6: when the lookup of a username fails, a diagnostic is printed, the
\* output has for that username no list line or one with the raw username as
\* display name, and the run goes on to the end of the sorted list.
C6_FailedLookupNoLineOrRawName ==
    \A i \in 1..Len(io) :
        (tool = "changelog" /\ io[i].op = "exec" /\ io[i].result \in LookupFailures) =>
            /\ \E j \in 1..Len(stdout) : stdout[j].k = "diag"
            /\ \A j \in LinesAbout(LookedUp(io[i])) :
                 stdout[j].text = ListLine(LookedUp(io[i]), LookedUp(io[i]))
            /\ pc = "exited" => idx > Len(usernames)

\* The parts of C6 the code keeps: the diagnostic, and one line per username
\* of the list, in the list's order, whatever failed.
FailedLookupDoesNotAbort ==
    (tool = "changelog" /\ pc \in {"u_loop", "exited"} /\ usernames # <<>>) =>
        /\ Cardinality({j \in 1..Len(stdout) : stdout[j].k = "diag"})
             = Cardinality({i \in 1..Len(io) : io[i].op = "exec" /\ io[i].result \in LookupFailures})
        /\ Cardinality({j \in 1..Len(stdout) : stdout[j].k = "line"}) = idx - 1
        /\ \A n \in 1..(idx - 1) : LinesAbout(usernames[n]) # {}
        /\ pc = "exited" => idx = Len(usernames) + 1

\* C7: no lookup process is ever started for a key of the bot alias table,
\* and the line printed for it carries the table's display name.
C7_BotsNeverLookedUp ==
    tool = "changelog" =>
        /\ \A i \in 1..Len(io) : io[i].op = "exec" => ~IsBot(LookedUp(io[i]))
        /\ \A n \in 1..Len(usernames) :
             (n < idx /\ IsBot(usernames[n])) =>
                 \E j \in 1..Len(stdout) :
                     stdout[j] = [k |-> "line",
                                  text |-> ListLine(BOTS[usernames[n]], usernames[n])]

\* A finished run over a bot and another user: one process, for the other.
C7_Witness ==
    /\ tool = "changelog" /\ pc = "exited"
    /\ Len(usernames) >= 2
    /\ renovate \in Range(usernames)
    /\ Cardinality({i \in 1..Len(io) : io[i].op = "exec"}) = Len(usernames) - 1
    /\ \E j \in 1..Len(stdout) :
         stdout[j].text = ListLine(<<"Renovate Bot">>, renovate)

\* ------------------------------------------------------------ sync-dist

\* The external commands started so far, in order.
Execs == SelectSeq(io, LAMBDA e : e.op = "exec")

HasDryRun(cmd) == <<"--dryrun">> \in Range(cmd)

CallOrder(c, live) ==
    CASE c = "dev-to-local" -> <<"main", "init_sh", "www">>
      [] c \in {"local-to-dev-archives", "local-to-prod-archives"} -> <<"main">>
      [] c = "local-to-prod" ->
           <<"main", "prod_init", "prod_sh", "prod_www">>
             \o (IF live THEN <<"inv_sh", "inv_win", "inv_rs">> ELSE <<>>)
      [] c = "update-dev-release" ->
           <<"main">> \o (IF live THEN <<"inv_dev_static", "inv_dev">> ELSE <<>>)
      [] c = "update-prod-release" ->
           <<"main">> \o (IF live THEN <<"inv_prod">> ELSE <<>>)

IsInvalidation(cmd) == <<"cloudfront">> \in Range(cmd)

\* C10: the external commands of a run are started one at a time in the
\* script's order, none twice; once one fails the run is over and no further
\* command is started; an invalidation is started only after every copy of
\* the run has succeeded.
C10_FixedOrderAbortOnFailure ==
    (tool = "sync" /\ command \in Commands) =>
        LET order == CallOrder(command, "--live-run" \in Range(cmdline))
            ex == Execs
        IN  /\ Len(ex) <= Len(order)
            /\ \A i \in 1..Len(ex) :
                 ex[i].arg = run_s3cmd(CommandAt(order[i], command, s3_bucket, archive_version),
                                       live_run)
            /\ \A i, j \in 1..Len(ex) : i # j => ex[i].arg # ex[j].arg
            /\ \A i \in 1..Len(ex) : i < Len(ex) => ex[i].result = "ok"
            /\ (ex # <<>> /\ ex[Len(ex)].result # "ok") => (pc = "exited" /\ exit_code = 1)
            /\ \A i \in 1..Len(ex) :
                 IsInvalidation(ex[i].arg) =>
                     /\ "--live-run" \in Range(cmdline)
                     /\ \A n \in 1..Len(order) :
                          ~IsInvalidation(
                               Split(CommandAt(order[n], command, s3_bucket, archive_version)))
                              => (n < i /\ ex[n].result = "ok")

\* A live local-to-prod run whose third copy failed: it ended there, with no
\* fourth copy and no invalidation.
C10_Witness ==
    /\ tool = "sync" /\ pc = "exited"
    /\ cmdline = <<"sync-dist.py", "local-to-prod", "--live-run">>
    /\ Len(Execs) = 3
    /\ Execs[3].result = "exit_failure"

\* A live local-to-prod run that went through: three invalidations after the
\* four copies.
LiveRunInvalidatedLast ==
    /\ tool = "sync" /\ pc = "exited" /\ exit_code = 0
    /\ command = "local-to-prod"
    /\ Len(Execs) = 7
    /\ \A i \in 5..7 : IsInvalidation(Execs[i].arg)

\* ------------------------------------------------------------ command lines

\* The usage message was printed, the exit status is 1, and no file was
\* touched and no process started.
UsageExit ==
    /\ pc = "exited" /\ exit_code = 1
    /\ Len(stdout) = 1 /\ stdout[1].k = "usage"
    /\ io = <<>>

\* The positional arguments of a sync-dist command line: what follows the
\* script name, one live flag not counted.
Positionals(a) == Tail(IF "--live-run" \in Range(a) THEN RemoveFirst(a, "--live-run") ELSE a)

\* A sync-dist command line with an unrecognized subcommand or with a number
\* of positional arguments that does not match the subcommand.
SyncMisuse(a) ==
    \/ Len(a) < 2
    \/ a[2] \notin Commands
    \/ Len(Positionals(a)) # (IF TakesVersion(a[2]) THEN 2 ELSE 1)

\* The same for changelog_helper, whose subcommands take one argument.
ChangelogMisuse(a) ==
    \/ Len(a) < 3
    \/ a[2] \notin Subcommands
    \/ Len(a) > 3

\* What changelog_helper rejects: too few arguments, or an unrecognized
\* subcommand.
ChangelogRejected(a) ==
    \/ Len(a) < 3
    \/ a[2] \notin Subcommands

AcceptedRuns ==
    ((tool = "sync" /\ ~SyncMisuse(cmdline)) \/ (tool = "changelog" /\ ~ChangelogRejected(cmdline)))
        => (pc # "start" => ~UsageExit)

====
